---- MODULE Spec2Model ----
(***************************************************************************)
(* A model of sphinx_multiversion/git.py: the reference scanner            *)
(* (get_all_refs), the reference filter with override resolution and the   *)
(* required-file check (get_refs, file_exists) and the tree export         *)
(* (copy_tree).  Text is modelled as TLA+ strings, read character by       *)
(* character with SubSeq, so that strip, split, the date parser and the    *)
(* regular expressions are computed the way the code computes them.        *)
(***************************************************************************)
EXTENDS Integers, Sequences, FiniteSets, TLC

VARIABLES
    output,     \* get_all_refs: decoded stdout of `git for-each-ref`
    lines,      \* get_all_refs: output.splitlines(), what the loop runs over
    config,     \* get_refs: the config object (whitelists, override suffix)
    files,      \* get_refs: the required-files argument
    repo,       \* the repository's references: full refname -> commit id
    pc,         \* position of the get_refs/get_all_refs generators
    lineno,     \* get_all_refs: index of the line the for loop is at
    ref,        \* get_refs: the loop variable `ref`
    lookup,     \* get_refs: stdout of `git show-ref candidate` for `ref`
    scanned,    \* history: the references get_all_refs has yielded
    out,        \* history: the references get_refs has yielded
    probes,     \* history: the (refname, filename) pairs file_exists was asked
    ctpc,       \* copy_tree: position in the function
    reference,  \* copy_tree: the reference argument
    sourcepath, \* copy_tree: the sourcepath argument
    fp,         \* copy_tree: the SpooledTemporaryFile (state and content)
    dst,        \* copy_tree: the files present in the destination directory
    todo        \* copy_tree: archive members extractall has not yet written

vars == <<output, lines, config, files, repo, pc, lineno, ref, lookup, scanned, out,
          probes, ctpc, reference, sourcepath, fp, dst, todo>>

scanVars == <<output, lines, config, files, repo, pc, lineno, ref, lookup, scanned,
              out, probes>>

copyVars == <<ctpc, reference, sourcepath, fp, dst, todo>>

-----------------------------------------------------------------------------
(* Bounds of the model.                                                    *)

MaxLines == 2

-----------------------------------------------------------------------------
(* Text helpers: Python's str methods on strings.                          *)

Char(s, i) == SubSeq(s, i, i)

Digits == {"0", "1", "2", "3", "4", "5", "6", "7", "8", "9"}

IsSpace(c) == c \in {" ", "\t", "\n", "\r", "\f"}

IsLineBreak(c) == c \in {"\n", "\r", "\f"}

StartsWith(s, p) == Len(s) >= Len(p) /\ SubSeq(s, 1, Len(p)) = p

\* The least index >= from at which character c stands in s, 0 if none.
RECURSIVE Find(_, _, _)
Find(s, c, from) ==
    IF from > Len(s) THEN 0
    ELSE IF Char(s, from) = c THEN from
    ELSE Find(s, c, from + 1)

\* The index of the first character of s at or after i that is no
\* whitespace, Len(s) + 1 if none.
RECURSIVE SkipSpace(_, _)
SkipSpace(s, i) ==
    IF i <= Len(s) /\ IsSpace(Char(s, i)) THEN SkipSpace(s, i + 1) ELSE i

\* The index of the last character of s at or before i that is no
\* whitespace, 0 if none.
RECURSIVE SkipSpaceBack(_, _)
SkipSpaceBack(s, i) ==
    IF i >= 1 /\ IsSpace(Char(s, i)) THEN SkipSpaceBack(s, i - 1) ELSE i

LStrip(s) == SubSeq(s, SkipSpace(s, 1), Len(s))

Strip(s) == SubSeq(s, SkipSpace(s, 1), SkipSpaceBack(s, Len(s)))

\* str.split(sep) with a one-character separator, from index `from` on.
RECURSIVE SplitFrom(_, _, _)
SplitFrom(s, sep, from) ==
    LET k == Find(s, sep, from) IN
    IF k = 0 THEN <<SubSeq(s, from, Len(s))>>
    ELSE <<SubSeq(s, from, k - 1)>> \o SplitFrom(s, sep, k + 1)

Split(s, sep) == SplitFrom(s, sep, 1)

\* The index of the first line break of s at or after from, 0 if none.
RECURSIVE FindBreak(_, _)
FindBreak(s, from) ==
    IF from > Len(s) THEN 0
    ELSE IF IsLineBreak(Char(s, from)) THEN from
    ELSE FindBreak(s, from + 1)

\* str.splitlines(): no empty last line, "\r\n" is one break.
RECURSIVE SplitLinesFrom(_, _)
SplitLinesFrom(s, from) ==
    IF from > Len(s) THEN <<>>
    ELSE LET k == FindBreak(s, from) IN
         IF k = 0 THEN <<SubSeq(s, from, Len(s))>>
         ELSE LET w == IF Char(s, k) = "\r" /\ k < Len(s) /\ Char(s, k + 1) = "\n"
                       THEN 2 ELSE 1
              IN <<SubSeq(s, from, k - 1)>> \o SplitLinesFrom(s, k + w)

SplitLines(s) == SplitLinesFrom(s, 1)

AllDigits(s, from, to) == \A i \in from..to : Char(s, i) \in Digits

DigitVal(c) ==
    CASE c = "0" -> 0 [] c = "1" -> 1 [] c = "2" -> 2 [] c = "3" -> 3
      [] c = "4" -> 4 [] c = "5" -> 5 [] c = "6" -> 6 [] c = "7" -> 7
      [] c = "8" -> 8 [] c = "9" -> 9

\* int() of the digits s[from..to].
RECURSIVE Num(_, _, _)
Num(s, from, to) ==
    IF to < from THEN 0
    ELSE 10 * Num(s, from, to - 1) + DigitVal(Char(s, to))

-----------------------------------------------------------------------------
(* datetime.datetime.strptime(fields[2], "%Y-%m-%d %H:%M:%S %z") on the    *)
(* fixed-width form `git for-each-ref` writes for %(creatordate:iso).      *)

BadDate == [ok |-> FALSE]

IsLeap(y) == (y % 4 = 0 /\ y % 100 # 0) \/ y % 400 = 0

DaysIn(y, m) ==
    IF m = 2 THEN (IF IsLeap(y) THEN 29 ELSE 28)
    ELSE IF m \in {4, 6, 9, 11} THEN 30 ELSE 31

DateShape(s) ==
    /\ Len(s) = 25
    /\ AllDigits(s, 1, 4)   /\ Char(s, 5) = "-"
    /\ AllDigits(s, 6, 7)   /\ Char(s, 8) = "-"
    /\ AllDigits(s, 9, 10)  /\ IsSpace(Char(s, 11))
    /\ AllDigits(s, 12, 13) /\ Char(s, 14) = ":"
    /\ AllDigits(s, 15, 16) /\ Char(s, 17) = ":"
    /\ AllDigits(s, 18, 19) /\ IsSpace(Char(s, 20))
    /\ Char(s, 21) \in {"+", "-"}
    /\ AllDigits(s, 22, 25)

strptime(s) ==
    IF ~DateShape(s) THEN BadDate
    ELSE LET Y == Num(s, 1, 4)
             m == Num(s, 6, 7)
             d == Num(s, 9, 10)
             H == Num(s, 12, 13)
             M == Num(s, 15, 16)
             S == Num(s, 18, 19)
             zh == Num(s, 22, 23)
             zm == Num(s, 24, 25)
             sign == IF Char(s, 21) = "-" THEN -1 ELSE 1
         IN IF /\ Y >= 1 /\ m \in 1..12 /\ d >= 1 /\ d <= DaysIn(Y, m)
               /\ H <= 23 /\ M <= 59 /\ S <= 59 /\ zm <= 59
            THEN [ok |-> TRUE, year |-> Y, month |-> m, day |-> d,
                  hour |-> H, minute |-> M, second |-> S,
                  utcoffset |-> sign * (60 * zh + zm)]
            ELSE BadDate

-----------------------------------------------------------------------------
(* re.match(r"^refs/(heads|tags|remotes/[^/]+)/(\S+)$", refname)           *)

NoMatch == [matched |-> FALSE]

AllNonSpace(s, from) == \A i \in from..Len(s) : ~IsSpace(Char(s, i))

\* "/(\S+)$" at the head of rest, after `source` was matched as group 1.
NameAfter(source, rest) ==
    IF /\ StartsWith(rest, "/")
       /\ Len(rest) >= 2
       /\ AllNonSpace(rest, 2)
    THEN [matched |-> TRUE, source |-> source, name |-> SubSeq(rest, 2, Len(rest))]
    ELSE NoMatch

\* Variant: any one namespace under refs/ is taken as the source.
MatchRefnameAnyNamespace(refname) ==
    LET slash == Find(refname, "/", 6) IN
    IF StartsWith(refname, "refs/") /\ slash > 6
    THEN NameAfter(SubSeq(refname, 6, slash - 1),
                   SubSeq(refname, slash, Len(refname)))
    ELSE NoMatch

MatchRefname(refname) ==
    IF ~StartsWith(refname, "refs/") THEN NoMatch
    ELSE LET body == SubSeq(refname, 6, Len(refname))
             afterHeads == SubSeq(body, 6, Len(body))
             afterTags == SubSeq(body, 5, Len(body))
             slash == Find(body, "/", 9)
         IN IF StartsWith(body, "heads") /\ NameAfter("heads", afterHeads).matched
            THEN NameAfter("heads", afterHeads)
            ELSE IF StartsWith(body, "tags") /\ NameAfter("tags", afterTags).matched
            THEN NameAfter("tags", afterTags)
            ELSE IF StartsWith(body, "remotes/") /\ slash > 9
            THEN NameAfter(SubSeq(body, 1, slash - 1),
                           SubSeq(body, slash, Len(body)))
            ELSE NoMatch

-----------------------------------------------------------------------------
(* re.match(pattern, string) for the pattern syntax the whitelists use:    *)
(* literals, ".", "^", "$", the classes \d \w \S, escaped literals and the *)
(* postfix operators "+", "*" and "?".  The match starts at the first      *)
(* character of the string and need not reach its end.                     *)

WordChars ==
    Digits \cup {"_", "a", "b", "c", "d", "e", "f", "g", "h", "i", "j", "k",
                 "l", "m", "n", "o", "p", "q", "r", "s", "t", "u", "v", "w",
                 "x", "y", "z"}

\* The number of pattern characters the atom at position p takes.
AtomWidth(pat, p) == IF Char(pat, p) = "\\" THEN 2 ELSE 1

\* Does the atom at position p of pat accept the character c?
AtomAccepts(pat, p, c) ==
    IF Char(pat, p) = "\\"
    THEN LET e == Char(pat, p + 1) IN
         IF e = "d" THEN c \in Digits
         ELSE IF e = "w" THEN c \in WordChars
         ELSE IF e = "S" THEN ~IsSpace(c)
         ELSE c = e
    ELSE IF Char(pat, p) = "." THEN c # "\n"
    ELSE c = Char(pat, p)

RECURSIVE MatchHere(_, _, _, _)
MatchHere(pat, p, s, i) ==
    IF p > Len(pat) THEN TRUE
    ELSE IF Char(pat, p) = "^" THEN i = 1 /\ MatchHere(pat, p + 1, s, i)
    ELSE IF Char(pat, p) = "$"
    THEN /\ \/ i = Len(s) + 1
            \/ i = Len(s) /\ Char(s, i) = "\n"
         /\ MatchHere(pat, p + 1, s, i)
    ELSE LET w == AtomWidth(pat, p)
             q == IF p + w <= Len(pat) THEN Char(pat, p + w) ELSE ""
             here == i <= Len(s) /\ AtomAccepts(pat, p, Char(s, i))
         IN IF q = "*"
            THEN \/ here /\ MatchHere(pat, p, s, i + 1)
                 \/ MatchHere(pat, p + w + 1, s, i)
            ELSE IF q = "+"
            THEN here /\ \/ MatchHere(pat, p, s, i + 1)
                         \/ MatchHere(pat, p + w + 1, s, i + 1)
            ELSE IF q = "?"
            THEN \/ here /\ MatchHere(pat, p + w + 1, s, i + 1)
                 \/ MatchHere(pat, p + w + 1, s, i)
            ELSE here /\ MatchHere(pat, p + w, s, i + 1)

\* Variant: re.fullmatch in place of re.match.
ReFullMatch(pat, s) == MatchHere(pat \o "$", 1, s, 1)

ReMatch(pat, s) == MatchHere(pat, 1, s, 1)

-----------------------------------------------------------------------------
(* The repository the git commands read: references, commits, trees.       *)

\* Every refname of the model, in the order git sorts references.
RefOrder ==
    << "refs/heads/feature/x", "refs/heads/main", "refs/heads/main-ovr",
       "refs/notes/commits", "refs/remotes/fork/main",
       "refs/remotes/origin/main", "refs/remotes/origin/main-ovr",
       "refs/tags/v1.0", "refs/tags/v1.2.3", "refs/tags/v2.0-rc" >>

BaseRepo ==
    [r \in { "refs/heads/feature/x", "refs/heads/main", "refs/notes/commits",
             "refs/remotes/fork/main", "refs/remotes/origin/main",
             "refs/tags/v1.0", "refs/tags/v1.2.3", "refs/tags/v2.0-rc" } |->
        CASE r = "refs/heads/feature/x"     -> "c7"
          [] r = "refs/heads/main"          -> "c1"
          [] r = "refs/notes/commits"       -> "c8"
          [] r = "refs/remotes/fork/main"   -> "c6"
          [] r = "refs/remotes/origin/main" -> "c5"
          [] r = "refs/tags/v1.0"           -> "c4"
          [] r = "refs/tags/v1.2.3"         -> "c2"
          [] r = "refs/tags/v2.0-rc"        -> "c3"]

\* The repositories a run may start in: without an override branch, with
\* one on the remote only, and with one both local and on the remote.
Repos ==
    { BaseRepo,
      BaseRepo @@ ("refs/remotes/origin/main-ovr" :> "c10"),
      BaseRepo @@ ("refs/remotes/origin/main-ovr" :> "c10")
               @@ ("refs/heads/main-ovr" :> "c11") }

\* The paths in the tree of each commit.
TreeOf(commit) ==
    CASE commit \in {"c2", "c4", "c5", "c10"} -> {"conf.py", "docs", "docs/index.rst"}
      [] commit \in {"c6", "c7"}              -> {"README", "docs", "docs/index.rst"}
      [] OTHER                                -> {"README"}

\* The reference git resolves a revision name to, "" if none: the name
\* itself, then under refs/, refs/tags/, refs/heads/, refs/remotes/.
RevParse(rp, name) ==
    LET tries == << name, "refs/" \o name, "refs/tags/" \o name,
                    "refs/heads/" \o name, "refs/remotes/" \o name >>
        hits == { k \in 1..Len(tries) : tries[k] \in DOMAIN rp }
    IN IF hits = {} THEN ""
       ELSE tries[CHOOSE k \in hits : \A j \in hits : k <= j]

\* Whether refname ends with the path components of pattern.
EndsWithPath(refname, pattern) ==
    LET tail == "/" \o pattern IN
    /\ Len(refname) >= Len(tail)
    /\ SubSeq(refname, Len(refname) - Len(tail) + 1, Len(refname)) = tail

\* stdout of `git show-ref pattern`: a "<commit> <refname>" line for each
\* matching reference, sorted by refname; empty with a nonzero exit.
RECURSIVE ShowRefFrom(_, _, _)
ShowRefFrom(rp, pattern, k) ==
    IF k > Len(RefOrder) THEN ""
    ELSE (IF RefOrder[k] \in DOMAIN rp /\ EndsWithPath(RefOrder[k], pattern)
          THEN rp[RefOrder[k]] \o " " \o RefOrder[k] \o "\n"
          ELSE "") \o ShowRefFrom(rp, pattern, k + 1)

ShowRef(rp, pattern) == ShowRefFrom(rp, pattern, 1)

\* str.split()[0]: the first whitespace-delimited token.
FirstToken(s) ==
    LET t == LStrip(s)
        ends == { k \in 1..Len(t) : IsSpace(Char(t, k)) }
    IN IF ends = {} THEN t
       ELSE SubSeq(t, 1, (CHOOSE k \in ends : \A j \in ends : k <= j) - 1)

\* `git branch candidate --track origin/candidate` can succeed only when
\* the remote branch exists and no local branch of that name does.
\* Variant: `git branch --force`, which resets an existing local branch.
CanForceBranch(rp, candidate) ==
    ("refs/remotes/origin/" \o candidate) \in DOMAIN rp

CanCreateBranch(rp, candidate) ==
    /\ ("refs/remotes/origin/" \o candidate) \in DOMAIN rp
    /\ ("refs/heads/" \o candidate) \notin DOMAIN rp

CreateBranch(rp, candidate) ==
    [r \in DOMAIN rp \cup {"refs/heads/" \o candidate} |->
        IF r = "refs/heads/" \o candidate
        THEN rp["refs/remotes/origin/" \o candidate]
        ELSE rp[r]]

-----------------------------------------------------------------------------
(* The inputs of a run.                                                    *)

IsoDate == "2020-01-02 03:04:05 +0100"

\* Lines `git for-each-ref` may write, in the order of their refnames.
\* Line 1 has a refname outside refs/(heads|tags|remotes), line 2 the same
\* with a date that does not parse, line 5 a branch with such a date, line 6
\* a fourth field, line 13 the empty date of a tag that is not a commit.
SampleLines ==
    << "c0\tHEAD\t" \o IsoDate,
       "c0\tHEAD\t2020-02-30 03:04:05 +0100",
       "c7\trefs/heads/feature/x\t" \o IsoDate,
       "c1\trefs/heads/main\t" \o IsoDate,
       "c1\trefs/heads/main\tyesterday",
       "c1\trefs/heads/main\t" \o IsoDate \o "\tx",
       "c8\trefs/notes/commits\t" \o IsoDate,
       "c6\trefs/remotes/fork/main\t" \o IsoDate,
       "c5\trefs/remotes/origin/main\t2021-12-31 23:59:59 -0730",
       "c4\trefs/tags/v1.0\t" \o IsoDate,
       "c2\trefs/tags/v1.2.3\t" \o IsoDate,
       "c3\trefs/tags/v2.0-rc\t" \o IsoDate,
       "c9\trefs/tags/blob\t" >>

\* The text of the lines picked, each ended by a newline, in listing order.
RECURSIVE Listing(_, _)
Listing(picked, k) ==
    IF k > Len(SampleLines) THEN ""
    ELSE (IF k \in picked THEN SampleLines[k] \o "\n" ELSE "")
         \o Listing(picked, k + 1)

Outputs ==
    { Listing(picked, 1) :
        picked \in { P \in SUBSET (1..Len(SampleLines)) : Cardinality(P) <= MaxLines } }

\* A whitelist setting: None, or a pattern.
None == [configured |-> FALSE, pattern |-> ""]

Pattern(p) == [configured |-> TRUE, pattern |-> p]

Configs ==
    [ smv_tag_whitelist : {None, Pattern("v1"), Pattern("^v\\d+\\.\\d+$")},
      smv_branch_whitelist : {None, Pattern("^main$")},
      smv_remote_whitelist : {None, Pattern("origin")},
      smv_refs_override_suffix : {"", "-ovr"} ]

FileLists == { <<>>, <<".", "conf.py">> }

-----------------------------------------------------------------------------
(* get_all_refs: one pass of the for loop over output.splitlines().        *)

GitRef(name, commit, source, is_remote, refname, creatordate) ==
    [name |-> name, commit |-> commit, source |-> source,
     is_remote |-> is_remote, refname |-> refname, creatordate |-> creatordate]

NoRef == GitRef("", "", "", FALSE, "", BadDate)

Fields(line) == Split(Strip(line), "\t")

\* Variant: a date that does not parse only skips the line.
LineOutcomeLenient(line) ==
    LET fields == Fields(line) IN
    IF Len(fields) # 3 THEN "skip"
    ELSE IF ~strptime(fields[3]).ok THEN "skip"
    ELSE IF ~MatchRefname(fields[2]).matched THEN "skip"
    ELSE "yield"

\* What the loop body does with one line: "skip" (continue), "raise" (the
\* ValueError of strptime) or "yield".
LineOutcome(line) ==
    LET fields == Fields(line) IN
    IF Len(fields) # 3 THEN "skip"
    ELSE IF ~strptime(fields[3]).ok THEN "raise"
    ELSE IF ~MatchRefname(fields[2]).matched THEN "skip"
    ELSE "yield"

\* The GitRef the loop body yields for a line whose outcome is "yield".
LineRef(line) ==
    LET fields == Fields(line)
        matchobj == MatchRefname(fields[2])
    IN GitRef(matchobj.name, fields[1], matchobj.source,
              StartsWith(matchobj.source, "remotes/"),
              fields[2], strptime(fields[3]))

ScanEnd ==
    /\ pc = "scan"
    /\ lineno > Len(lines)
    /\ pc' = "done"
    /\ UNCHANGED <<output, lines, config, files, repo, lineno, ref, lookup, scanned,
                   out, probes>>
    /\ UNCHANGED copyVars

ScanSkip ==
    /\ pc = "scan"
    /\ lineno <= Len(lines)
    /\ LineOutcome(lines[lineno]) = "skip"
    /\ lineno' = lineno + 1
    /\ UNCHANGED <<output, lines, config, files, repo, pc, ref, lookup, scanned, out,
                   probes>>
    /\ UNCHANGED copyVars

ScanRaise ==
    /\ pc = "scan"
    /\ lineno <= Len(lines)
    /\ LineOutcome(lines[lineno]) = "raise"
    /\ pc' = "error"
    /\ UNCHANGED <<output, lines, config, files, repo, lineno, ref, lookup, scanned,
                   out, probes>>
    /\ UNCHANGED copyVars

ScanYield ==
    /\ pc = "scan"
    /\ lineno <= Len(lines)
    /\ LineOutcome(lines[lineno]) = "yield"
    /\ ref' = LineRef(lines[lineno])
    /\ scanned' = Append(scanned, LineRef(lines[lineno]))
    /\ lookup' = ""
    /\ pc' = "policy"
    /\ UNCHANGED <<output, lines, config, files, repo, lineno, out, probes>>
    /\ UNCHANGED copyVars

-----------------------------------------------------------------------------
(* get_refs: the category policy.                                          *)

\* `whitelist is None or not re.match(whitelist, s)`, negated.
Whitelisted(whitelist, s) ==
    whitelist.configured /\ ReMatch(whitelist.pattern, s)

\* str.partition(sep)[2]: what follows the first sep, "" without one.
AfterFirst(s, sep) ==
    LET k == Find(s, sep, 1) IN
    IF k = 0 THEN "" ELSE SubSeq(s, k + 1, Len(s))

\* Variant: a remote reference needs the remote whitelist only.
CategoryPolicyRemoteOnly(r, cfg) ==
    IF r.source = "tags"
    THEN Whitelisted(cfg.smv_tag_whitelist, r.name)
    ELSE IF r.source = "heads"
    THEN Whitelisted(cfg.smv_branch_whitelist, r.name)
    ELSE IF r.is_remote /\ cfg.smv_remote_whitelist.configured
    THEN ReMatch(cfg.smv_remote_whitelist.pattern, AfterFirst(r.source, "/"))
    ELSE FALSE

\* TRUE when the if/elif chain lets r through, FALSE when it continues.
CategoryPolicy(r, cfg) ==
    IF r.source = "tags"
    THEN Whitelisted(cfg.smv_tag_whitelist, r.name)
    ELSE IF r.source = "heads"
    THEN Whitelisted(cfg.smv_branch_whitelist, r.name)
    ELSE IF r.is_remote /\ cfg.smv_remote_whitelist.configured
    THEN /\ ReMatch(cfg.smv_remote_whitelist.pattern, AfterFirst(r.source, "/"))
         /\ Whitelisted(cfg.smv_branch_whitelist, r.name)
    ELSE FALSE

\* Variant: a rejection ends the loop (break in place of continue).
PolicyRejectBreak ==
    /\ pc = "policy"
    /\ ~CategoryPolicy(ref, config)
    /\ pc' = "done"
    /\ UNCHANGED <<output, lines, config, files, repo, lineno, ref, lookup,
                   scanned, out, probes>>
    /\ UNCHANGED copyVars

PolicyReject ==
    /\ pc = "policy"
    /\ ~CategoryPolicy(ref, config)
    /\ pc' = "scan"
    /\ lineno' = lineno + 1
    /\ UNCHANGED <<output, lines, config, files, repo, ref, lookup, scanned, out, probes>>
    /\ UNCHANGED copyVars

PolicyAccept ==
    /\ pc = "policy"
    /\ CategoryPolicy(ref, config)
    /\ pc' = "override"
    /\ UNCHANGED <<output, lines, config, files, repo, lineno, ref, lookup, scanned,
                   out, probes>>
    /\ UNCHANGED copyVars

-----------------------------------------------------------------------------
(* get_refs: the override ref.                                             *)

\* Variant: the candidate is built from the full refname.
CandidateFromRefname(r, cfg) == r.refname \o cfg.smv_refs_override_suffix

Candidate(r, cfg) == r.name \o cfg.smv_refs_override_suffix

\* Variant: the name is replaced along with refname and commit.
OverrideRenaming(r, candidate, stdout) ==
    [r EXCEPT !.refname = candidate, !.commit = FirstToken(stdout),
              !.name = candidate]

\* The two _replace calls.
Override(r, candidate, stdout) ==
    [r EXCEPT !.refname = candidate, !.commit = FirstToken(stdout)]

\* The suffix is "": no command is run.
OverrideOff ==
    /\ pc = "override"
    /\ config.smv_refs_override_suffix = ""
    /\ pc' = "files"
    /\ UNCHANGED <<output, lines, config, files, repo, lineno, ref, lookup, scanned,
                   out, probes>>
    /\ UNCHANGED copyVars

\* `git show-ref candidate` exits nonzero.
OverrideMiss ==
    /\ pc = "override"
    /\ config.smv_refs_override_suffix # ""
    /\ ShowRef(repo, Candidate(ref, config)) = ""
    /\ pc' = "files"
    /\ UNCHANGED <<output, lines, config, files, repo, lineno, ref, lookup, scanned,
                   out, probes>>
    /\ UNCHANGED copyVars

\* `git show-ref candidate` exits 0; `git branch --track` then creates the
\* local branch or fails, and the reference is replaced either way.
OverrideApply ==
    /\ pc = "override"
    /\ config.smv_refs_override_suffix # ""
    /\ ShowRef(repo, Candidate(ref, config)) # ""
    /\ \E created \in BOOLEAN :
          /\ created => CanCreateBranch(repo, Candidate(ref, config))
          /\ repo' = IF created THEN CreateBranch(repo, Candidate(ref, config))
                     ELSE repo
    /\ lookup' = ShowRef(repo, Candidate(ref, config))
    /\ ref' = Override(ref, Candidate(ref, config),
                       ShowRef(repo, Candidate(ref, config)))
    /\ pc' = "files"
    /\ UNCHANGED <<output, lines, config, files, lineno, scanned, out, probes>>
    /\ UNCHANGED copyVars

-----------------------------------------------------------------------------
(* get_refs: the required files, and file_exists.                          *)

OsSep == "/"

\* str.replace(old, new) with a one-character old, from index `from` on.
RECURSIVE ReplaceFrom(_, _, _, _)
ReplaceFrom(s, old, new, from) ==
    LET k == Find(s, old, from) IN
    IF k = 0 THEN SubSeq(s, from, Len(s))
    ELSE SubSeq(s, from, k - 1) \o new \o ReplaceFrom(s, old, new, k + 1)

Replace(s, old, new) == ReplaceFrom(s, old, new, 1)

\* `git cat-file -e refname:filename` exits 0.
file_exists(rp, refname, filename) ==
    LET path == IF OsSep # "/" THEN Replace(filename, OsSep, "/") ELSE filename
        target == RevParse(rp, refname)
    IN target # "" /\ path \in TreeOf(rp[target])

\* The filenames the comprehension hands to file_exists.
Probed(fs) == { fs[k] : k \in { j \in DOMAIN fs : fs[j] # "." } }

\* Variant: "." is checked like any other entry.
MissingFilesWithDot(rp, r, fs) ==
    SelectSeq(fs, LAMBDA filename : ~file_exists(rp, r.refname, filename))

MissingFiles(rp, r, fs) ==
    SelectSeq(fs, LAMBDA filename :
                     filename # "." /\ ~file_exists(rp, r.refname, filename))

FilesReject ==
    /\ pc = "files"
    /\ MissingFiles(repo, ref, files) # <<>>
    /\ probes' = probes \cup { <<ref.refname, f>> : f \in Probed(files) }
    /\ pc' = "scan"
    /\ lineno' = lineno + 1
    /\ UNCHANGED <<output, lines, config, files, repo, ref, lookup, scanned, out>>
    /\ UNCHANGED copyVars

FilesYield ==
    /\ pc = "files"
    /\ MissingFiles(repo, ref, files) = <<>>
    /\ probes' = probes \cup { <<ref.refname, f>> : f \in Probed(files) }
    /\ out' = Append(out, [pos |-> Len(scanned), ref |-> ref, lookup |-> lookup])
    /\ pc' = "scan"
    /\ lineno' = lineno + 1
    /\ UNCHANGED <<output, lines, config, files, repo, ref, lookup, scanned>>
    /\ UNCHANGED copyVars

-----------------------------------------------------------------------------
(* The scan-and-filter specification.                                      *)

CopyIdle ==
    /\ ctpc = "idle"
    /\ reference = NoRef
    /\ sourcepath = "."
    /\ fp = [open |-> FALSE, members |-> <<>>]
    /\ dst = {}
    /\ todo = <<>>

Init ==
    /\ output \in Outputs
    /\ lines = SplitLines(output)
    /\ config \in Configs
    /\ files \in FileLists
    /\ repo \in Repos
    /\ pc = "scan"
    /\ lineno = 1
    /\ ref = NoRef
    /\ lookup = ""
    /\ scanned = <<>>
    /\ out = <<>>
    /\ probes = {}
    /\ CopyIdle

Next ==
    \/ ScanEnd
    \/ ScanSkip
    \/ ScanRaise
    \/ ScanYield
    \/ PolicyReject
    \/ PolicyAccept
    \/ OverrideOff
    \/ OverrideMiss
    \/ OverrideApply
    \/ FilesReject
    \/ FilesYield

Spec == Init /\ [][Next]_vars

-----------------------------------------------------------------------------
(* copy_tree: `git archive` into a temporary file, then extractall.        *)

\* Every path of the model's trees, in the order git archive writes them.
PathOrder == << "README", "conf.py", "docs", "docs/index.rst" >>

KnownCommits == {"c1", "c2", "c3", "c4", "c5", "c6", "c7", "c8", "c10", "c11"}

\* The members of `git archive --format tar commit -- path`.
RECURSIVE ArchiveFrom(_, _, _)
ArchiveFrom(commit, path, k) ==
    IF k > Len(PathOrder) THEN <<>>
    ELSE (IF /\ PathOrder[k] \in TreeOf(commit)
             /\ \/ path = "."
                \/ PathOrder[k] = path
                \/ StartsWith(PathOrder[k], path \o "/")
          THEN <<PathOrder[k]>> ELSE <<>>)
         \o ArchiveFrom(commit, path, k + 1)

ArchiveMembers(commit, path) ==
    IF commit \in KnownCommits THEN ArchiveFrom(commit, path, 1) ELSE <<>>

\* git archive exits 0 only for a commit it knows and a path in its tree.
ArchiveValid(commit, path) == ArchiveMembers(commit, path) # <<>>

\* What the destination directory may hold before the call.
Preexisting == {"stale.html"}

\* Variant: the temporary file is left open (no `with` block).
ReleaseNever(f) == f

\* Leaving the `with` block closes the temporary file and drops its data.
Release(f) == [open |-> FALSE, members |-> <<>>]

\* tempfile.SpooledTemporaryFile() is entered.
CopyOpen ==
    /\ ctpc = "call"
    /\ fp' = [open |-> TRUE, members |-> <<>>]
    /\ ctpc' = "archive"
    /\ UNCHANGED <<reference, sourcepath, dst, todo>>
    /\ UNCHANGED scanVars

\* check_call returns; fp.seek(0) and TarFile(fileobj=fp) read the members.
CopyArchive ==
    /\ ctpc = "archive"
    /\ ArchiveValid(reference.commit, sourcepath)
    /\ fp' = [fp EXCEPT !.members = ArchiveMembers(reference.commit, sourcepath)]
    /\ todo' = ArchiveMembers(reference.commit, sourcepath)
    /\ ctpc' = "extract"
    /\ UNCHANGED <<reference, sourcepath, dst>>
    /\ UNCHANGED scanVars

\* check_call raises CalledProcessError: git archive exited nonzero, for a
\* bad commit or path or for a failure of its own.
CopyArchiveFail ==
    /\ ctpc = "archive"
    /\ fp' = Release(fp)
    /\ ctpc' = "CalledProcessError"
    /\ UNCHANGED <<reference, sourcepath, dst, todo>>
    /\ UNCHANGED scanVars

\* extractall writes the next member into dst.
CopyExtract ==
    /\ ctpc = "extract"
    /\ todo # <<>>
    /\ dst' = dst \cup {Head(todo)}
    /\ todo' = Tail(todo)
    /\ UNCHANGED <<reference, sourcepath, fp, ctpc>>
    /\ UNCHANGED scanVars

\* extractall raises on the next member (an OSError of the file system).
CopyExtractFail ==
    /\ ctpc = "extract"
    /\ todo # <<>>
    /\ fp' = Release(fp)
    /\ ctpc' = "OSError"
    /\ UNCHANGED <<reference, sourcepath, dst, todo>>
    /\ UNCHANGED scanVars

\* extractall has written every member; both `with` blocks are left.
CopyReturn ==
    /\ ctpc = "extract"
    /\ todo = <<>>
    /\ fp' = Release(fp)
    /\ ctpc' = "returned"
    /\ UNCHANGED <<reference, sourcepath, dst, todo>>
    /\ UNCHANGED scanVars

\* The references a caller may hand to copy_tree: those get_all_refs reads
\* from the sample lines, and one whose commit the repository lacks.
CopyRefs ==
    { LineRef(SampleLines[k]) :
        k \in { j \in 1..Len(SampleLines) : LineOutcome(SampleLines[j]) = "yield" } }
    \cup { GitRef("gone", "c99", "heads", FALSE, "refs/heads/gone", strptime(IsoDate)) }

SourcePaths == {".", "docs", "conf.py", "api"}

InitCopy ==
    /\ output = ""
    /\ lines = <<>>
    /\ config = [smv_tag_whitelist |-> None, smv_branch_whitelist |-> None,
                 smv_remote_whitelist |-> None, smv_refs_override_suffix |-> ""]
    /\ files = <<>>
    /\ repo = BaseRepo
    /\ pc = "done"
    /\ lineno = 1
    /\ ref = NoRef
    /\ lookup = ""
    /\ scanned = <<>>
    /\ out = <<>>
    /\ probes = {}
    /\ ctpc = "call"
    /\ reference \in CopyRefs
    /\ sourcepath \in SourcePaths
    /\ fp = [open |-> FALSE, members |-> <<>>]
    /\ dst \in SUBSET Preexisting
    /\ todo = <<>>

NextCopy ==
    \/ CopyOpen
    \/ CopyArchive
    \/ CopyArchiveFail
    \/ CopyExtract
    \/ CopyExtractFail
    \/ CopyReturn

SpecCopy == InitCopy /\ [][NextCopy]_vars

-----------------------------------------------------------------------------
(* Properties of the category policy.                                      *)

Suffix == config.smv_refs_override_suffix

\* The step in which get_refs decides the category policy for `ref`.
PolicyStep == pc = "policy" /\ pc' # "policy"

\* C1: a remote reference passes the category policy if and only if the
\* remote whitelist is configured and matches the remote name (what follows
\* "remotes/" in source) and the branch whitelist is configured and matches
\* the name; an unset remote whitelist or an unset branch whitelist rejects
\* every remote reference.
C1_RemoteNeedsBoth ==
    [][ (PolicyStep /\ ref.is_remote) =>
          /\ (pc' = "override") <=>
                /\ config.smv_remote_whitelist.configured
                /\ ReMatch(config.smv_remote_whitelist.pattern,
                           SubSeq(ref.source, 9, Len(ref.source)))
                /\ config.smv_branch_whitelist.configured
                /\ ReMatch(config.smv_branch_whitelist.pattern, ref.name)
          /\ ~config.smv_remote_whitelist.configured => pc' = "scan"
          /\ ~config.smv_branch_whitelist.configured => pc' = "scan" ]_vars

\* A remote reference has passed the policy under both whitelists.
C1_Witness ==
    /\ pc = "override"
    /\ ref.is_remote
    /\ ref.refname = "refs/remotes/origin/main"
    /\ config.smv_remote_whitelist = Pattern("origin")
    /\ config.smv_branch_whitelist = Pattern("^main$")

\* C2: a tag (a head) passes the category policy if and only if the tag
\* (branch) whitelist is configured and its pattern matches the name from
\* the first character on, without having to reach the end of the name:
\* pattern v1 accepts v1.2.3, pattern ^v\d+\.\d+$ rejects v2.0-rc, None
\* rejects everything; the other category's whitelist plays no part.
C2_TagHeadPrefixMatch ==
    [][ (PolicyStep /\ ref.source \in {"tags", "heads"}) =>
          LET own == IF ref.source = "tags" THEN config.smv_tag_whitelist
                     ELSE config.smv_branch_whitelist
          IN /\ (pc' = "override") <=>
                   (own.configured /\ ReMatch(own.pattern, ref.name))
             /\ (own = Pattern("v1") /\ ref.name = "v1.2.3") => pc' = "override"
             /\ (own = Pattern("^v\\d+\\.\\d+$") /\ ref.name = "v2.0-rc")
                   => pc' = "scan"
             /\ (own = Pattern("^v\\d+\\.\\d+$") /\ ref.name = "v1.0")
                   => pc' = "override"
             /\ own = None => pc' = "scan" ]_vars

\* Tag v1.2.3 has passed under the tag pattern v1, a proper prefix of it.
C2_Witness ==
    /\ pc = "override"
    /\ ref.source = "tags"
    /\ ref.name = "v1.2.3"
    /\ config.smv_tag_whitelist = Pattern("v1")
    /\ config.smv_branch_whitelist = None

-----------------------------------------------------------------------------
(* Properties of the override.                                             *)

\* The commits of the references `git show-ref pattern` lists.
CommitsNamed(rp, pattern) ==
    { rp[r] : r \in { x \in DOMAIN rp : EndsWithPath(x, pattern) } }

\* C3: a yielded reference for which the override applied differs from the
\* scanned reference in refname (the candidate short name) and commit (a
\* commit the candidate names) only; name, source, is_remote and creatordate
\* are the scanned ones.  Without an override all six fields are the scanned
\* ones.
C3_OverrideFrame ==
    \A k \in 1..Len(out) :
        LET e == out[k]
            s == scanned[e.pos]
        IN IF e.lookup # ""
           THEN /\ e.ref.refname = s.name \o Suffix
                /\ e.ref.commit \in CommitsNamed(repo, s.name \o Suffix)
                /\ e.ref.name = s.name
                /\ e.ref.source = s.source
                /\ e.ref.is_remote = s.is_remote
                /\ e.ref.creatordate = s.creatordate
           ELSE e.ref = s

\* An overridden reference was yielded, its commit replaced by another one.
C3_Witness ==
    \E k \in 1..Len(out) :
        /\ out[k].lookup # ""
        /\ out[k].ref.refname = "main-ovr"
        /\ out[k].ref.commit # scanned[out[k].pos].commit

\* C8: for a reference that passed the policy the override applies if and
\* only if the suffix is not empty and a reference named name + suffix
\* exists; otherwise the reference goes on unchanged; no case raises; and a
\* failed creation of the tracking branch does not undo the override.
C8_OverrideWhenFound ==
    [][ (pc = "override" /\ pc' # "override") =>
          LET candidate == ref.name \o Suffix
              found == Suffix # "" /\ CommitsNamed(repo, candidate) # {}
          IN /\ pc' = "files"
             /\ found => /\ ref'.refname = candidate
                         /\ ref'.commit \in CommitsNamed(repo, candidate)
                         /\ ref' # ref
             /\ ~found => ref' = ref /\ repo' = repo ]_vars

\* The override applied although no local tracking branch was created.
C8_Witness ==
    /\ pc = "files"
    /\ lookup # ""
    /\ ref.refname = "main-ovr"
    /\ "refs/heads/main-ovr" \notin DOMAIN repo

\* C7 as stated: a run of get_refs leaves the repository's references and
\* their commits as they were.
C7_RefsUntouched == [][repo' = repo]_vars

\* C7 amended: a run of get_refs never changes or removes a reference and
\* never writes the export destination; it adds a reference only when an
\* override lookup succeeded, and then only the local branch
\* refs/heads/<name + suffix>, set to the commit of origin/<name + suffix>.
C7_OnlyTrackingBranchAdded ==
    [][ /\ \A r \in DOMAIN repo : r \in DOMAIN repo' /\ repo'[r] = repo[r]
        /\ dst' = dst
        /\ repo' # repo =>
              LET candidate == ref.name \o Suffix IN
              /\ pc = "override"
              /\ Suffix # ""
              /\ CommitsNamed(repo, candidate) # {}
              /\ DOMAIN repo' = DOMAIN repo \cup {"refs/heads/" \o candidate}
              /\ repo'["refs/heads/" \o candidate]
                    = repo["refs/remotes/origin/" \o candidate] ]_vars

\* The run has created the local branch main-ovr at origin's commit.
C7_Witness ==
    /\ pc = "files"
    /\ "refs/heads/main-ovr" \in DOMAIN repo
    /\ repo["refs/heads/main-ovr"] = "c10"

-----------------------------------------------------------------------------
(* Properties of the required-file check.                                  *)

\* The refname get_refs holds for the last scanned reference once the
\* override step is over: the candidate if the lookup succeeded.
ResolvedRefname ==
    IF lookup # "" THEN scanned[Len(scanned)].name \o Suffix
    ELSE scanned[Len(scanned)].refname

\* No tree that `name` addresses in the repository holds `path`.
AbsentIn(name, path) ==
    \A r \in DOMAIN repo : r = RevParse(repo, name) => path \notin TreeOf(repo[r])

\* C4: a reference that passed the policy is excluded if and only if some
\* required file other than "." is absent in the tree its refname addresses
\* after the override step (the candidate when the override applied, the
\* original refname otherwise); "." is never probed and never excludes.
C4_ExcludedIffFileMissing ==
    [][ (pc = "files" /\ pc' # "files") =>
          /\ pc' = "scan"
          /\ (out' = out) <=>
                \E k \in DOMAIN files :
                    files[k] # "." /\ AbsentIn(ResolvedRefname, files[k])
          /\ out' # out => out' = Append(out, out'[Len(out')])
          /\ \A p \in probes' : p[2] # "." /\ (p \in probes \/ p[1] = ResolvedRefname)
     ]_vars

\* A reference whose own tree has conf.py was excluded because the tree of
\* its override lacks it, with "." among the required files.
C4_Witness ==
    /\ pc = "scan"
    /\ lookup # ""
    /\ scanned # <<>>
    /\ scanned[Len(scanned)].refname = "refs/remotes/origin/main"
    /\ "conf.py" \in TreeOf(scanned[Len(scanned)].commit)
    /\ files = <<".", "conf.py">>
    /\ <<"main-ovr", "conf.py">> \in probes
    /\ out = <<>>

-----------------------------------------------------------------------------
(* Properties of the scanner.                                              *)

\* The ways to read refname as refs/<source>/<name> with <source> one of
\* heads, tags, remotes/<remote>, <remote> without "/", and <name> not empty
\* and without whitespace: the set of <<source, name>> pairs.
RefnameReadings(refname) ==
    { <<SubSeq(refname, 6, i - 1), SubSeq(refname, i + 1, Len(refname))>> :
        i \in { j \in 7..(Len(refname) - 1) :
                  /\ StartsWith(refname, "refs/")
                  /\ Char(refname, j) = "/"
                  /\ \/ SubSeq(refname, 6, j - 1) \in {"heads", "tags"}
                     \/ /\ StartsWith(refname, "refs/remotes/")
                        /\ j > 14
                        /\ \A m \in 14..(j - 1) : Char(refname, m) # "/"
                  /\ \A m \in (j + 1)..Len(refname) : ~IsSpace(Char(refname, m)) } }

\* The step in which get_all_refs handles the line at lineno.
LineStep == pc = "scan" /\ lineno <= Len(lines) /\ (pc' # pc \/ lineno' # lineno)

\* What the scanner does with a line of three fields, by its refname: a
\* reference with the matched source and name is yielded, or the line is
\* dropped and the scan moves to the next line.
YieldsIffRefnameMatches(fields) ==
    IF RefnameReadings(fields[2]) # {}
    THEN /\ scanned' = Append(scanned, ref')
         /\ pc' = "policy"
         /\ <<ref'.source, ref'.name>> \in RefnameReadings(fields[2])
         /\ ref'.refname = fields[2]
         /\ ref'.commit = fields[1]
         /\ ref'.is_remote <=> StartsWith(ref'.source, "remotes/")
    ELSE /\ scanned' = scanned
         /\ pc' = "scan"
         /\ lineno' = lineno + 1

\* C5 as stated: every line of three fields yields a reference if and only
\* if its refname matches, and is dropped silently otherwise.
C5_EveryThreeFieldLine ==
    [][ (LineStep /\ Len(Fields(lines[lineno])) = 3) =>
          YieldsIffRefnameMatches(Fields(lines[lineno])) ]_vars

\* C5 amended: every line of three fields whose creator date parses yields
\* a reference if and only if its refname matches, and is dropped silently
\* otherwise.
C5_ThreeFieldLineWithDate ==
    [][ ( /\ LineStep
          /\ Len(Fields(lines[lineno])) = 3
          /\ strptime(Fields(lines[lineno])[3]).ok ) =>
          YieldsIffRefnameMatches(Fields(lines[lineno])) ]_vars

\* The HEAD line was dropped and the remote branch after it was yielded.
C5_Witness ==
    /\ Len(lines) = 2
    /\ Fields(lines[1])[2] = "HEAD"
    /\ strptime(Fields(lines[1])[3]).ok
    /\ Len(scanned) = 1
    /\ scanned[1].source = "remotes/origin"
    /\ scanned[1].name = "main"
    /\ scanned[1].is_remote

-----------------------------------------------------------------------------
(* Properties of the enumeration order.                                    *)

\* C9: get_refs yields a subsequence of what get_all_refs yields, in scan
\* order: each step leaves `out` alone or appends the reference scanned
\* last, at most once; a rejection by the policy or by the file check moves
\* the scan to the next line; and the enumeration ends only past the last
\* line.
C9_SubsequenceInScanOrder ==
    [][ /\ \/ out' = out
           \/ /\ out' = Append(out, out'[Len(out')])
              /\ out'[Len(out')].pos = Len(scanned)
              /\ out'[Len(out')].ref.name = scanned[Len(scanned)].name
              /\ out'[Len(out')].ref.source = scanned[Len(scanned)].source
              /\ \A k \in 1..Len(out) : out[k].pos < Len(scanned)
        /\ ( \/ pc = "policy" /\ pc' \notin {"policy", "override"}
             \/ pc = "files" /\ pc' # "files" /\ out' = out ) =>
              /\ pc' = "scan"
              /\ lineno' = lineno + 1
              /\ scanned' = scanned
        /\ (pc # "done" /\ pc' = "done") => lineno > Len(lines)
     ]_vars

\* The first scanned reference was rejected and the second was yielded.
C9_Witness ==
    /\ pc = "done"
    /\ Len(scanned) = 2
    /\ Len(out) = 1
    /\ out[1].pos = 2

-----------------------------------------------------------------------------
(* Properties of copy_tree.                                                *)

\* The call has ended, by returning or by raising.
CopyEnded == ctpc \in {"returned", "CalledProcessError", "OSError"}

\* What the call has written into the destination.
Extracted == dst \ Preexisting

AllMembers ==
    LET m == ArchiveMembers(reference.commit, sourcepath) IN
    { m[k] : k \in 1..Len(m) }

\* C6 as stated: when the call has ended, either every member was extracted
\* or the call failed and none was; and the temporary file is released.
C6_AllOrNothing ==
    CopyEnded =>
        /\ ~fp.open
        /\ \/ ctpc = "returned" /\ Extracted = AllMembers
           \/ ctpc # "returned" /\ Extracted = {}

\* C6 amended: when the call has ended the temporary file is released; if
\* it returned, every member was extracted; if archive generation failed,
\* none was; if extraction failed, the members before the failing one were.
C6_ReleasedAndPrefix ==
    CopyEnded =>
        /\ ~fp.open
        /\ ctpc = "returned" => Extracted = AllMembers
        /\ ctpc = "CalledProcessError" => Extracted = {}
        /\ ctpc = "OSError" =>
              LET m == ArchiveMembers(reference.commit, sourcepath) IN
              \E n \in 0..(Len(m) - 1) : Extracted = { m[k] : k \in 1..n }

\* Extraction failed after some members, not all, were written.
C6_Witness ==
    /\ ctpc = "OSError"
    /\ Extracted # {}
    /\ Extracted # AllMembers
    /\ ~fp.open

====
